---------------------------- MODULE Spec2Model ----------------------------
(***************************************************************************)
(* Experiment result aggregation (graph-level and pair-level) and the      *)
(* alpha broadcast of the plotting scripts.                                *)
(*                                                                         *)
(*   src/analysis/aggregate_macro_results.py   graph-level aggregator      *)
(*   src/analysis/aggregate_micro_results.py   pair-level aggregator       *)
(*   src/analysis/plot_all_summaries_plt.py    _prepare_alpha_broadcast    *)
(*   src/analysis/plot_all_summaries_sns.py    plot_all_summaries          *)
(*                                                                         *)
(* Every cell of a JSON document or of a table is a tagged value           *)
(* [t, s, n, d]:  none (Python None / JSON null / absent),  nan (float     *)
(* not-a-number, the missing value of a table), num (the rational n/d,     *)
(* d > 0, in lowest terms), sqrt (the square root of the rational n/d),    *)
(* str (the string s).  Arithmetic is exact; floating-point rounding and   *)
(* overflow are outside the model.                                         *)
(***************************************************************************)
EXTENDS Integers, Sequences, FiniteSets, TLC

VARIABLES
    script,      \* which program runs: "macro", "micro", "stats" or "plot"
    tree,        \* tree[m]: the documents glob found under results/<m>/raw, in glob's order
    mi,          \* position of the caller (__main__) in its list of models
    pc,          \* "call", "loop", "exit", "crashed"; "doc", "plot", "done"
    json_files,  \* the list glob returned to the running call
    fi,          \* number of files of json_files the loop has consumed
    all_rows,    \* all_rows (macro) / all_runs_data (micro) of the running call
    out,         \* out[m]: the summary CSV of model m, [written, rows]
    exc,         \* the exception that ended the program, or "none"
    log,         \* the messages printed, as tags
    data,        \* statistics of one document: the document json.load returned
    grow,        \* statistics of one document: what the graph-level loop body made of it
    prow,        \* statistics of one document: what the pair-level loop body made of it
    combined,    \* plot scripts: the combined summary table read from the CSVs
    final_df,    \* plot scripts: the broadcast table, [plt, sns]
    alphas       \* plot scripts: the alpha axis, [plt, sns]

vars == <<script, tree, mi, pc, json_files, fi, all_rows, out, exc, log,
          data, grow, prow, combined, final_df, alphas>>

aggVars == <<tree, mi, json_files, fi, all_rows, out, exc, log>>
statVars == <<data, grow, prow>>
plotVars == <<combined, final_df, alphas>>

-----------------------------------------------------------------------------
(* Bounds of the model *)

\* total number of result documents under the three roots
MaxFiles == 2
\* longest measurement list of a document in the statistics universe
MaxResults == 3
\* most rows in a combined summary table given to the broadcast
MaxRows == 3

-----------------------------------------------------------------------------
(* Tagged values *)

None == [t |-> "none", s |-> "", n |-> 0, d |-> 1]
NaN == [t |-> "nan", s |-> "", n |-> 0, d |-> 1]
Str(x) == [t |-> "str", s |-> x, n |-> 0, d |-> 1]

Abs(x) == IF x < 0 THEN -x ELSE x

RECURSIVE Gcd(_, _)
Gcd(a, b) == IF b = 0 THEN a ELSE Gcd(b, a % b)

\* the rational a/b (b # 0) in lowest terms with a positive denominator
Frac(a, b) ==
    LET g == Gcd(Abs(a), Abs(b))
        sgn == IF b < 0 THEN -1 ELSE 1
    IN [t |-> "num", s |-> "", n |-> sgn * (a \div g), d |-> Abs(b) \div g]

Num(x) == Frac(x, 1)

\* the square root of the rational a/b >= 0
SqrtOf(a, b) ==
    LET q == Frac(a, b) IN [t |-> "sqrt", s |-> "", n |-> q.n, d |-> q.d]

IsNum(v) == v.t = "num"
\* pandas isna / notna: None and NaN are both missing
IsMissing(v) == v.t \in {"none", "nan"}

\* a < b for two num values
NumLess(a, b) == a.n * b.d < b.n * a.d


-----------------------------------------------------------------------------
(* Documents: what json.load returns for one result file *)

param_keys == <<"condition", "alpha", "seed", "top_k", "bottom_k",
                "max_samples", "epochs", "batch_size", "lr">>

\* metadata.get(key) / r.get(key): None when the key is absent
Get(obj, key) == IF key \in DOMAIN obj THEN obj[key] ELSE None

\* a metadata object declaring condition, seed, top_k and (unless a is None) alpha
MetaOf(c, a, s, k) ==
    [x \in {"condition", "seed", "top_k"} \cup (IF a = None THEN {} ELSE {"alpha"}) |->
        CASE x = "condition" -> Str(c)
          [] x = "alpha" -> a
          [] x = "seed" -> Num(s)
          [] OTHER -> Num(k)]

EmptyMeta == [x \in {} |-> None]

Measurement(m, w) == [mse |-> m, test_samples |-> w]

\* a parsed document: metadata object and results of shape "list", "null"
\* (JSON null: falsy, not a list) or "object" (a non-empty JSON object:
\* truthy, not a list)
Doc(md, shape, items) == [parse |-> TRUE, metadata |-> md, shape |-> shape, items |-> items]
\* a file json.load cannot parse
Unparseable == [parse |-> FALSE, metadata |-> EmptyMeta, shape |-> "null", items |-> <<>>]

IsList(doc) == doc.shape = "list"
\* Python truthiness of data.get("results", [])
Truthy(doc) == \/ doc.shape = "object"
               \/ doc.shape = "list" /\ Len(doc.items) > 0

-----------------------------------------------------------------------------
(* Sequence helpers *)

RECURSIVE SelectNum(_)
\* _finite: the elements that are finite numbers (None and NaN become nan and are dropped)
SelectNum(seq) ==
    IF seq = <<>> THEN <<>>
    ELSE IF IsNum(Head(seq)) THEN <<Head(seq)>> \o SelectNum(Tail(seq))
         ELSE SelectNum(Tail(seq))

RECURSIVE SumInt(_)
SumInt(seq) == IF seq = <<>> THEN 0 ELSE Head(seq) + SumInt(Tail(seq))

\* the integer square root of a perfect square
Isqrt(x) == CHOOSE r \in 0..x : r * r = x

-----------------------------------------------------------------------------
(* Graph-level statistics: aggregate_macro_results.py *)

_finite(values) == SelectNum(values)

\* np.mean(arr) of integer measurements
MeanOf(arr) == Frac(SumInt([i \in 1..Len(arr) |-> arr[i].n]), Len(arr))

\* np.std(arr, ddof=1): sqrt( sum (x - mean)^2 / (n - 1) )
StdOf(arr) ==
    LET n == Len(arr)
        S == SumInt([i \in 1..n |-> arr[i].n])
        devs == SumInt([i \in 1..n |-> (n * arr[i].n - S) * (n * arr[i].n - S)])
    IN SqrtOf(devs, n * n * (n - 1))

\* the population standard deviation (ddof=0), defined from one element on
_mean_std_population(arr) ==
    IF Len(arr) = 0 THEN <<NaN, NaN>>
    ELSE <<MeanOf(arr),
           LET n == Len(arr)
               S == SumInt([i \in 1..n |-> arr[i].n])
           IN SqrtOf(SumInt([i \in 1..n |-> (n * arr[i].n - S) * (n * arr[i].n - S)]),
                     n * n * n)>>

_mean_std_sample(arr) ==
    IF Len(arr) = 0 THEN <<NaN, NaN>>
    ELSE <<MeanOf(arr), IF Len(arr) >= 2 THEN StdOf(arr) ELSE NaN>>

\* _finite([r.get('mse', np.nan) for r in results])
mse_list(doc) == _finite([i \in 1..Len(doc.items) |-> Get(doc.items[i], "mse")])

RECURSIVE SqrtNonNeg(_)
\* [np.sqrt(x) for x in mse_list if np.isfinite(x) and x >= 0.0]
SqrtNonNeg(arr) ==
    IF arr = <<>> THEN <<>>
    ELSE IF Head(arr).n >= 0 THEN <<Num(Isqrt(Head(arr).n))>> \o SqrtNonNeg(Tail(arr))
         ELSE SqrtNonNeg(Tail(arr))

rmse_list(doc) == _finite(SqrtNonNeg(mse_list(doc)))

\* an alpha normalization that forgets the 'all' condition
NormAlphaRandomOnly(cond, alpha) == IF cond \in {Str("random")} THEN NaN ELSE alpha

\* random/all do not depend on alpha
NormAlpha(cond, alpha) == IF cond \in {Str("random"), Str("all")} THEN NaN ELSE alpha

GraphRow(doc) ==
    LET md == doc.metadata
        ms == _mean_std_sample(mse_list(doc))
        rs == _mean_std_sample(rmse_list(doc))
    IN [condition |-> Get(md, "condition"),
        alpha |-> NormAlpha(Get(md, "condition"), Get(md, "alpha")),
        seed |-> Get(md, "seed"), top_k |-> Get(md, "top_k"),
        bottom_k |-> Get(md, "bottom_k"), max_samples |-> Get(md, "max_samples"),
        epochs |-> Get(md, "epochs"), batch_size |-> Get(md, "batch_size"),
        lr |-> Get(md, "lr"),
        mse_mean |-> ms[1], mse_std |-> ms[2],
        rmse_mean |-> rs[1], rmse_std |-> rs[2],
        n_targets_used |-> Num(Len(mse_list(doc)))]

-----------------------------------------------------------------------------
(* Pair-level statistics: aggregate_micro_results.py *)

\* a measurement enters the weighted sum
Counted(r) ==
    LET mse == Get(r, "mse")
        w == Get(r, "test_samples")
    IN mse # None /\ w # None /\ w.n > 0

RECURSIVE Accumulate(_, _)
\* the loop over results: acc = <<total_mse_product, total_test_samples>>;
\* a nan mse makes the product nan
Accumulate(items, acc) ==
    IF items = <<>> THEN acc
    ELSE LET r == Head(items)
             prod == IF acc[1] = NaN \/ r.mse = NaN THEN NaN
                     ELSE Num(acc[1].n + r.mse.n * r.test_samples.n)
         IN IF Counted(r)
            THEN Accumulate(Tail(items), <<prod, acc[2] + r.test_samples.n>>)
            ELSE Accumulate(Tail(items), acc)

\* a weighted sum divided by the number of measurements, not by the total weight
overall_mse_per_result(doc) ==
    LET acc == Accumulate(doc.items, <<Num(0), 0>>)
    IN IF acc[2] > 0
       THEN (IF acc[1] = NaN THEN NaN ELSE Frac(acc[1].n, Len(doc.items)))
       ELSE NaN

overall_mse(doc) ==
    LET acc == Accumulate(doc.items, <<Num(0), 0>>)
    IN IF acc[2] > 0
       THEN (IF acc[1] = NaN THEN NaN ELSE Frac(acc[1].n, acc[2]))
       ELSE NaN

PairRow(doc) ==
    LET md == doc.metadata
    IN [condition |-> Get(md, "condition"),
        alpha |-> NormAlpha(Get(md, "condition"), Get(md, "alpha")),
        seed |-> Get(md, "seed"), top_k |-> Get(md, "top_k"),
        bottom_k |-> Get(md, "bottom_k"), max_samples |-> Get(md, "max_samples"),
        epochs |-> Get(md, "epochs"), batch_size |-> Get(md, "batch_size"),
        lr |-> Get(md, "lr"),
        overall_mse |-> overall_mse(doc)]

-----------------------------------------------------------------------------
(* Tables: pd.DataFrame, drop_duplicates, sort_values *)

\* a cell of a DataFrame: None is stored as the missing value
Cell(v) == IF v = None THEN NaN ELSE v

\* pd.DataFrame(all_rows)
ToFrame(rows) == [i \in 1..Len(rows) |-> [c \in DOMAIN rows[i] |-> Cell(rows[i][c])]]

\* the MetadataKey of a row: its param_keys columns
KeyOf(row) == [i \in 1..Len(param_keys) |-> row[param_keys[i]]]

RECURSIVE SelectSeq2(_, _, _)
\* the elements seq[i], i >= from, with keep[i]
SelectSeq2(seq, keep, from) ==
    IF from > Len(seq) THEN <<>>
    ELSE (IF keep[from] THEN <<seq[from]>> ELSE <<>>) \o SelectSeq2(seq, keep, from + 1)

\* df.drop_duplicates(subset=param_keys, keep='first'): a row stays when no
\* earlier row has its key
DropDuplicatesKeepFirst(df) ==
    SelectSeq2(df, [i \in 1..Len(df) |->
                     \A j \in 1..(i - 1) : KeyOf(df[j]) # KeyOf(df[i])], 1)

\* df.drop_duplicates(subset=param_keys, keep='last'): a row stays when no
\* later row has its key (missing values equal each other)
DropDuplicates(df) ==
    SelectSeq2(df, [i \in 1..Len(df) |->
                     \A j \in (i + 1)..Len(df) : KeyOf(df[j]) # KeyOf(df[i])], 1)

\* sorted order of the condition strings
CondRank(v) ==
    CASE v = Str("all") -> 0
      [] v = Str("bottomk") -> 1
      [] v = Str("random") -> 2
      [] v = Str("topk") -> 3
      [] OTHER -> 4

\* a column order with missing values first (na_position='first')
CellLessNaFirst(a, b) ==
    IF IsMissing(b) THEN FALSE
    ELSE IF IsMissing(a) THEN TRUE
    ELSE IF a.t = "str" THEN CondRank(a) < CondRank(b)
    ELSE NumLess(a, b)

\* a sorts strictly before b in one column, missing values last (na_position='last')
CellLess(a, b) ==
    IF IsMissing(a) THEN FALSE
    ELSE IF IsMissing(b) THEN TRUE
    ELSE IF a.t = "str" THEN CondRank(a) < CondRank(b)
    ELSE NumLess(a, b)

CellSame(a, b) == ~CellLess(a, b) /\ ~CellLess(b, a)

\* by=['condition', 'alpha', 'seed'], lexicographic
RowLess(a, b) ==
    \/ CellLess(a.condition, b.condition)
    \/ /\ CellSame(a.condition, b.condition)
       /\ \/ CellLess(a.alpha, b.alpha)
          \/ /\ CellSame(a.alpha, b.alpha)
             /\ CellLess(a.seed, b.seed)

RECURSIVE InsertAfterEqual(_, _)
\* insert row into a sorted sequence behind every row that does not sort after it
InsertAfterEqual(row, sorted) ==
    IF sorted = <<>> THEN <<row>>
    ELSE IF RowLess(row, Head(sorted)) THEN <<row>> \o sorted
         ELSE <<Head(sorted)>> \o InsertAfterEqual(row, Tail(sorted))

RECURSIVE InsertBeforeEqual(_, _)
\* insert row into a sorted sequence in front of every row that does not sort before it
InsertBeforeEqual(row, sorted) ==
    IF sorted = <<>> THEN <<row>>
    ELSE IF RowLess(Head(sorted), row) THEN <<Head(sorted)>> \o InsertBeforeEqual(row, Tail(sorted))
         ELSE <<row>> \o sorted

RECURSIVE SortUnstable(_)
\* a sort that reverses the order of rows with equal sort keys
SortUnstable(df) ==
    IF df = <<>> THEN <<>>
    ELSE InsertBeforeEqual(df[Len(df)], SortUnstable(SubSeq(df, 1, Len(df) - 1)))

RECURSIVE SortValues(_)
\* df.sort_values(by=['condition', 'alpha', 'seed']); reset_index(drop=True):
\* several keys are sorted by a stable lexsort, so rows with equal sort keys
\* keep their order
SortValues(df) ==
    IF df = <<>> THEN <<>>
    ELSE InsertAfterEqual(df[Len(df)], SortValues(SubSeq(df, 1, Len(df) - 1)))

-----------------------------------------------------------------------------
(* The loop body of each aggregator, applied to one file *)

\* aggregate_graph_results_from_json, lines 59-92: json.load raises on a
\* file it cannot parse; empty metadata or non-list results are skipped
GraphBody(d) ==
    IF ~d.parse THEN [kind |-> "raise", exc |-> "JSONDecodeError", row |-> <<>>]
    ELSE IF d.metadata = EmptyMeta \/ ~IsList(d)
         THEN [kind |-> "skip", exc |-> "none", row |-> <<>>]
         ELSE [kind |-> "row", exc |-> "none", row |-> <<GraphRow(d)>>]

\* a pair-level loop body with the graph-level guard: an empty list yields a row
PairBodyListGuard(d) ==
    IF ~d.parse THEN [kind |-> "raise", exc |-> "JSONDecodeError", row |-> <<>>]
    ELSE IF d.metadata = EmptyMeta \/ ~IsList(d)
         THEN [kind |-> "skip", exc |-> "none", row |-> <<>>]
         ELSE [kind |-> "row", exc |-> "none", row |-> <<PairRow(d)>>]

\* aggregate_results_from_json, lines 38-72: falsy results are skipped; a
\* truthy results value that is not a list of objects makes r.get raise
PairBody(d) ==
    IF ~d.parse THEN [kind |-> "raise", exc |-> "JSONDecodeError", row |-> <<>>]
    ELSE IF d.metadata = EmptyMeta \/ ~Truthy(d)
         THEN [kind |-> "skip", exc |-> "none", row |-> <<>>]
         ELSE IF ~IsList(d)
              THEN [kind |-> "raise", exc |-> "AttributeError", row |-> <<>>]
              ELSE [kind |-> "row", exc |-> "none", row |-> <<PairRow(d)>>]

\* lines 95-102 of the graph-level aggregator: DataFrame, drop_duplicates, sort, reset_index
GraphNormalize(rows) == SortValues(DropDuplicates(ToFrame(rows)))

\* lines 79-82 of the pair-level aggregator: DataFrame, drop_duplicates (no sort)
PairNormalize(rows) == DropDuplicates(ToFrame(rows))

-----------------------------------------------------------------------------
(* The aggregation programs *)

\* models = ['svr', 'rf', 'dgm'] (macro); the three calls of the micro script
Models == <<"svr", "rf", "dgm">>
ModelIdx == 1..Len(Models)

NoFile == [written |-> FALSE, rows |-> <<>>]
Written(df) == [written |-> TRUE, rows |-> df]

SeqsUpTo(S, n) == UNION {[1..k -> S] : k \in 0..n}

\* the measurement lists of the spec's concrete scenarios
ResultsA == <<Measurement(Num(4), Num(10)), Measurement(Num(16), Num(10))>>
ResultsB == <<Measurement(Num(9), None)>>

\* the result documents a root directory can hold
Corpus ==
    { Doc(MetaOf("topk", Num(50), 1, 100), "list", ResultsA),
      Doc(MetaOf("topk", Num(50), 1, 100), "list", ResultsB),
      Doc(MetaOf("topk", Num(50), 1, 200), "list", ResultsA),
      Doc(MetaOf("topk", None, 1, 100), "list", ResultsA),
      Doc(MetaOf("all", Num(50), 2, 100), "list", ResultsA),
      Doc(MetaOf("all", None, 2, 100), "list", ResultsB),
      Doc(MetaOf("random", Num(100), 2, 100), "list", ResultsB),
      Doc(MetaOf("bottomk", Num(100), 1, 100), "list", <<>>),
      Doc(EmptyMeta, "list", ResultsA),
      Doc(MetaOf("random", Num(50), 1, 100), "null", <<>>),
      Doc(MetaOf("random", Num(50), 1, 100), "object", <<>>),
      Unparseable }

FilesFound == SumInt([m \in ModelIdx |-> Len(tree[m])])

\* the caller moves on to its next call, or ends
Return == IF mi < Len(Models)
          THEN mi' = mi + 1 /\ pc' = "call"
          ELSE mi' = mi /\ pc' = "exit"

Raise(e) == pc' = "crashed" /\ exc' = e /\ mi' = mi

\* glob.glob(search_pattern, recursive=True) and the check for no files
Glob(prog) ==
    /\ script = prog /\ pc = "call"
    /\ \E files \in SeqsUpTo(Corpus, MaxFiles - FilesFound) :
         /\ tree' = [tree EXCEPT ![mi] = files]
         /\ json_files' = files
         /\ fi' = 0
         /\ all_rows' = <<>>
         /\ IF files = <<>>
            THEN log' = Append(log, "ERROR no files") /\ Return
            ELSE log' = log /\ pc' = "loop" /\ mi' = mi
    /\ UNCHANGED <<script, out, exc, statVars, plotVars>>

\* one iteration of `for filepath in json_files`
Loop(prog, body) ==
    /\ script = prog /\ pc = "loop" /\ fi < Len(json_files)
    /\ fi' = fi + 1
    /\ IF body.kind = "raise"
       THEN Raise(body.exc) /\ UNCHANGED <<all_rows, log>>
       ELSE /\ UNCHANGED <<pc, exc, mi>>
            /\ all_rows' = all_rows \o body.row
            /\ log' = IF body.kind = "skip" THEN Append(log, "WARN invalid") ELSE log
    /\ UNCHANGED <<script, tree, json_files, out, statVars, plotVars>>

MacroGlob == Glob("macro")
MacroLoop == Loop("macro", GraphBody(json_files[fi + 1]))

\* lines 94-112: with no row pd.DataFrame([]) has no columns, and the
\* lookup of the 'condition' column (in sort_values; in older pandas already
\* in drop_duplicates) raises KeyError before anything is written
MacroFinish ==
    /\ script = "macro" /\ pc = "loop" /\ fi = Len(json_files)
    /\ IF all_rows = <<>>
       THEN Raise("KeyError") /\ UNCHANGED <<out, log>>
       ELSE /\ out' = [out EXCEPT ![mi] = Written(GraphNormalize(all_rows))]
            /\ log' = Append(log, "INFO complete")
            /\ exc' = exc
            /\ Return
    /\ UNCHANGED <<script, tree, json_files, fi, all_rows, statVars, plotVars>>

MicroGlob == Glob("micro")
MicroLoop == Loop("micro", PairBody(json_files[fi + 1]))

\* lines 74-89: with no row the call reports and returns without writing
MicroFinish ==
    /\ script = "micro" /\ pc = "loop" /\ fi = Len(json_files)
    /\ IF all_rows = <<>>
       THEN /\ log' = Append(log, "ERROR no data")
            /\ out' = out
       ELSE /\ out' = [out EXCEPT ![mi] = Written(PairNormalize(all_rows))]
            /\ log' = Append(log, "INFO complete")
    /\ exc' = exc
    /\ Return
    /\ UNCHANGED <<script, tree, json_files, fi, all_rows, statVars, plotVars>>

\* the loop body has not run
NotRun == [kind |-> "none", exc |-> "none", row |-> <<>>]

InitIdle ==
    /\ tree = [m \in ModelIdx |-> <<>>]
    /\ mi = 1
    /\ json_files = <<>>
    /\ fi = 0
    /\ all_rows = <<>>
    /\ out = [m \in ModelIdx |-> NoFile]
    /\ exc = "none"
    /\ log = <<>>
    /\ data = Unparseable
    /\ grow = NotRun
    /\ prow = NotRun
    /\ combined = <<>>
    /\ final_df = <<>>
    /\ alphas = <<>>

Init ==
    /\ script \in {"macro", "micro"}
    /\ pc = "call"
    /\ InitIdle

Next ==
    \/ MacroGlob
    \/ MacroLoop
    \/ MacroFinish
    \/ MicroGlob
    \/ MicroLoop
    \/ MicroFinish

Spec == Init /\ [][Next]_vars

-----------------------------------------------------------------------------
(* The statistics of one document: both loop bodies applied to the same      *)
(* parsed document                                                           *)

\* the per-target measurements a document can carry: mse absent, nan,
\* negative or a perfect square; test_samples absent, zero or positive
MseValues == {None, NaN, Num(-4), Num(4), Num(16)}
SampleValues == {None, Num(0), Num(10), Num(20)}
Measurements == {Measurement(m, w) : m \in MseValues, w \in SampleValues}

StatDocs ==
    {Doc(MetaOf("topk", Num(50), 1, 100), "list", items) :
        items \in SeqsUpTo(Measurements, MaxResults)}
    \cup {Doc(EmptyMeta, "list", <<>>), Doc(EmptyMeta, "list", ResultsA),
          Doc(MetaOf("topk", Num(50), 1, 100), "null", <<>>),
          Doc(MetaOf("topk", Num(50), 1, 100), "object", <<>>),
          Unparseable}

StatGraph ==
    /\ script = "stats" /\ grow = NotRun
    /\ grow' = GraphBody(data)
    /\ UNCHANGED <<script, pc, aggVars, data, prow, plotVars>>

StatPair ==
    /\ script = "stats" /\ prow = NotRun
    /\ prow' = PairBody(data)
    /\ UNCHANGED <<script, pc, aggVars, data, grow, plotVars>>

InitStats ==
    /\ script = "stats"
    /\ pc = "doc"
    /\ tree = [m \in ModelIdx |-> <<>>]
    /\ mi = 1
    /\ json_files = <<>>
    /\ fi = 0
    /\ all_rows = <<>>
    /\ out = [m \in ModelIdx |-> NoFile]
    /\ exc = "none"
    /\ log = <<>>
    /\ data \in StatDocs
    /\ grow = NotRun
    /\ prow = NotRun
    /\ combined = <<>>
    /\ final_df = <<>>
    /\ alphas = <<>>

NextStats == StatGraph \/ StatPair

SpecStats == InitStats /\ [][NextStats]_vars

-----------------------------------------------------------------------------
(* The alpha broadcast of the plotting scripts *)

AlphaDependent == {Str("topk"), Str("bottomk")}
AlphaIndependent == {Str("random"), Str("all")}

RECURSIVE FilterCond(_, _)
\* df[df['condition'].isin(conds)]
FilterCond(df, conds) ==
    IF df = <<>> THEN <<>>
    ELSE (IF Head(df).condition \in conds THEN <<Head(df)>> ELSE <<>>)
         \o FilterCond(Tail(df), conds)

\* df['alpha'].dropna().unique()
UniqueAlphas(df) == {df[i].alpha : i \in {j \in 1..Len(df) : ~IsMissing(df[j].alpha)}}

RECURSIVE Sorted(_)
\* sorted(values)
Sorted(S) ==
    IF S = {} THEN <<>>
    ELSE LET lo == CHOOSE x \in S : \A y \in S : ~NumLess(y, x)
         IN <<lo>> \o Sorted(S \ {lo})

\* df.assign(alpha=a)
Assign(df, a) == [i \in 1..Len(df) |-> [df[i] EXCEPT !.alpha = a]]

RECURSIVE Replicate(_, _)
\* pd.concat([indep.assign(alpha=a) for a in alphas], ignore_index=True)
Replicate(indep, as) ==
    IF as = <<>> THEN <<>> ELSE Assign(indep, Head(as)) \o Replicate(indep, Tail(as))

\* a broadcast that takes its alpha axis from every row of the table
_prepare_alpha_broadcast_all_alphas(df) ==
    LET dep == FilterCond(df, AlphaDependent)
        indep == FilterCond(df, AlphaIndependent)
        as == Sorted(UniqueAlphas(df))
    IN IF as # <<>> /\ indep # <<>>
       THEN [final_df |-> dep \o Replicate(indep, as), alphas |-> as]
       ELSE IF as = <<>>
            THEN [final_df |-> Assign(df, Num(0)), alphas |-> <<Num(0)>>]
            ELSE [final_df |-> df, alphas |-> as]

\* plot_all_summaries_plt.py, lines 10-37
_prepare_alpha_broadcast(df) ==
    LET dep == FilterCond(df, AlphaDependent)
        indep == FilterCond(df, AlphaIndependent)
        a1 == Sorted(UniqueAlphas(dep))
        as == IF a1 = <<>> THEN Sorted(UniqueAlphas(df)) ELSE a1
    IN IF as # <<>> /\ indep # <<>>
       THEN [final_df |-> dep \o Replicate(indep, as), alphas |-> as]
       ELSE IF as = <<>>
            THEN [final_df |-> Assign(df, Num(0)), alphas |-> <<Num(0)>>]
            ELSE [final_df |-> df, alphas |-> as]

\* plot_all_summaries_sns.py, lines 43-50: no fallback for the alpha axis
plot_all_summaries(df) ==
    LET dep == FilterCond(df, AlphaDependent)
        indep == FilterCond(df, AlphaIndependent)
        as == Sorted(UniqueAlphas(dep))
    IN IF as # <<>> /\ indep # <<>>
       THEN [final_df |-> dep \o Replicate(indep, as), alphas |-> as]
       ELSE [final_df |-> df, alphas |-> as]

\* a row of a combined summary table: the CSV columns the broadcast reads,
\* the model column and the derived overall_rmse
PlotRow(model, cond, alpha) ==
    [model |-> Str(model), condition |-> Str(cond), alpha |-> alpha,
     seed |-> Num(1), overall_rmse |-> Num(2)]

PlotRows ==
    {PlotRow("SVR", c, a) : c \in {"all", "random", "topk", "bottomk"},
                            a \in {NaN, Num(50), Num(100)}}
    \cup {PlotRow("RF", "topk", Num(100)), PlotRow("RF", "all", NaN)}

NotPlotted == [done |-> FALSE, rows |-> <<>>]

\* plot_pair_summaries / plot_graph_summaries, step 2
PltBroadcast ==
    /\ script = "plot" /\ ~final_df.plt.done
    /\ LET b == _prepare_alpha_broadcast(combined)
       IN /\ final_df' = [final_df EXCEPT !.plt = [done |-> TRUE, rows |-> b.final_df]]
          /\ alphas' = [alphas EXCEPT !.plt = b.alphas]
    /\ UNCHANGED <<script, pc, aggVars, statVars, combined>>

\* plot_all_summaries, step 2
SnsBroadcast ==
    /\ script = "plot" /\ ~final_df.sns.done
    /\ LET b == plot_all_summaries(combined)
       IN /\ final_df' = [final_df EXCEPT !.sns = [done |-> TRUE, rows |-> b.final_df]]
          /\ alphas' = [alphas EXCEPT !.sns = b.alphas]
    /\ UNCHANGED <<script, pc, aggVars, statVars, combined>>

InitPlot ==
    /\ script = "plot"
    /\ pc = "plot"
    /\ tree = [m \in ModelIdx |-> <<>>]
    /\ mi = 1
    /\ json_files = <<>>
    /\ fi = 0
    /\ all_rows = <<>>
    /\ out = [m \in ModelIdx |-> NoFile]
    /\ exc = "none"
    /\ log = <<>>
    /\ data = Unparseable
    /\ grow = NotRun
    /\ prow = NotRun
    /\ combined \in SeqsUpTo(PlotRows, MaxRows)
    /\ final_df = [plt |-> NotPlotted, sns |-> NotPlotted]
    /\ alphas = [plt |-> <<>>, sns |-> <<>>]

NextPlot == PltBroadcast \/ SnsBroadcast

SpecPlot == InitPlot /\ [][NextPlot]_vars

-----------------------------------------------------------------------------
(* Notions the properties are stated with *)

\* the loop body of the running program
BodyOf(d) == IF script = "macro" THEN GraphBody(d) ELSE PairBody(d)

\* the positions of files whose documents yield a row
RowFiles(files) == {i \in 1..Len(files) : BodyOf(files[i]).kind = "row"}

\* the row of files[i] as a table stores it
FrameRowOf(files, i) == ToFrame(BodyOf(files[i]).row)[1]

\* the models whose summary file has been written
WrittenModels == {m \in ModelIdx : out[m].written}

NonAlphaKeys == {"condition", "seed", "top_k", "bottom_k", "max_samples",
                 "epochs", "batch_size", "lr"}

RECURSIVE RowsOf(_)
\* the rows a complete loop over files collects
RowsOf(files) ==
    IF files = <<>> THEN <<>> ELSE BodyOf(Head(files)).row \o RowsOf(Tail(files))

\* the table a call writes for files none of which makes it raise
TableOf(files) ==
    IF script = "macro" THEN GraphNormalize(RowsOf(files)) ELSE PairNormalize(RowsOf(files))

\* the enumeration orders of a set of files
Perms(files) ==
    {[i \in 1..Len(files) |-> files[p[i]]] :
        p \in {q \in [1..Len(files) -> 1..Len(files)] :
                  \A a, b \in 1..Len(files) : a # b => q[a] # q[b]}}

\* a malformed artifact: unparseable, metadata absent or empty, results not a list
Malformed(d) == ~d.parse \/ d.metadata = EmptyMeta \/ ~IsList(d)

RECURSIVE WellFormed(_)
\* the files that are not malformed, in order
WellFormed(files) ==
    IF files = <<>> THEN <<>>
    ELSE (IF Malformed(Head(files)) THEN <<>> ELSE <<Head(files)>>) \o WellFormed(Tail(files))

\* the row normalization applied to a table: alpha normalization, then the
\* program's deduplication (and sort)
RowNormalizer(rows) ==
    LET normed == [i \in 1..Len(rows) |->
                     [rows[i] EXCEPT !.alpha = NormAlpha(rows[i].condition, rows[i].alpha)]]
    IN IF script = "macro" THEN GraphNormalize(normed) ELSE PairNormalize(normed)

\* the call at hand has consumed every file and collected no row
NothingAggregated ==
    pc = "loop" /\ fi = Len(json_files) /\ all_rows = <<>>

-----------------------------------------------------------------------------
(* C1: for both aggregators the output table holds exactly one row per      *)
(* distinct MetadataKey (with alpha normalized) of the artifacts that       *)
(* yielded a row, and that row is the row of the last-processed artifact    *)
(* having that key.                                                         *)
C1_OneRowPerKeyLastWins ==
    \A m \in WrittenModels :
        LET files == tree[m]
            rows == out[m].rows
            V == RowFiles(files)
        IN /\ \A i \in V :
                Cardinality({j \in 1..Len(rows) :
                    KeyOf(rows[j]) = KeyOf(FrameRowOf(files, i))}) = 1
           /\ \A j \in 1..Len(rows) :
                \E i \in V :
                    /\ rows[j] = FrameRowOf(files, i)
                    /\ \A k \in V : k > i =>
                          KeyOf(FrameRowOf(files, k)) # KeyOf(FrameRowOf(files, i))

\* a written table whose root held two artifacts with one key and different statistics
C1_Witness ==
    \E m \in WrittenModels :
        \E i, k \in RowFiles(tree[m]) :
            /\ i < k
            /\ KeyOf(FrameRowOf(tree[m], i)) = KeyOf(FrameRowOf(tree[m], k))
            /\ FrameRowOf(tree[m], i) # FrameRowOf(tree[m], k)
            /\ Len(out[m].rows) < Cardinality(RowFiles(tree[m]))

(* C2: in every row either aggregator writes, a condition of 'random' or    *)
(* 'all' comes with a missing alpha whatever the artifact declared, and     *)
(* every artifact with condition 'topk' or 'bottomk' has its row with the   *)
(* declared alpha.                                                          *)
C2_AlphaNormalized ==
    \A m \in WrittenModels :
        LET files == tree[m]
            rows == out[m].rows
        IN /\ \A j \in 1..Len(rows) :
                rows[j].condition \in {Str("random"), Str("all")} => rows[j].alpha = NaN
           /\ \A i \in RowFiles(files) :
                LET md == files[i].metadata IN
                Get(md, "condition") \in {Str("topk"), Str("bottomk")} =>
                    \E j \in 1..Len(rows) :
                        /\ \A c \in NonAlphaKeys : rows[j][c] = Cell(Get(md, c))
                        /\ rows[j].alpha = Cell(Get(md, "alpha"))

\* a written table with a random/all row whose artifact declared an alpha,
\* and a topk/bottomk row with a real alpha
C2_Witness ==
    \E m \in WrittenModels :
        /\ \E i \in RowFiles(tree[m]) :
              /\ Get(tree[m][i].metadata, "condition") \in {Str("random"), Str("all")}
              /\ IsNum(Get(tree[m][i].metadata, "alpha"))
        /\ \E j \in 1..Len(out[m].rows) :
              /\ out[m].rows[j].condition \in {Str("topk"), Str("bottomk")}
              /\ IsNum(out[m].rows[j].alpha)

(* C3: a malformed artifact (unparseable document, metadata absent or       *)
(* empty, results not a list) never aborts the run: it contributes no row,  *)
(* the remaining artifacts are processed and the table written is the       *)
(* table of the well-formed artifacts.                                      *)
C3_MalformedNeverAborts ==
    /\ \A k \in 1..Len(json_files) :
          Malformed(json_files[k]) =>
              ~(pc = "crashed" /\ fi = k /\ BodyOf(json_files[k]).kind = "raise")
    /\ \A m \in WrittenModels : out[m].rows = TableOf(WellFormed(tree[m]))

(* C4: for artifacts with pairwise distinct MetadataKeys, every enumeration *)
(* order of the same artifacts gives the table that was written (same rows, *)
(* same order), for the graph-level and for the pair-level aggregator.      *)
C4_EnumerationOrderIrrelevant ==
    \A m \in WrittenModels :
        LET files == tree[m] IN
        (/\ RowFiles(files) = 1..Len(files)
         /\ \A i, k \in 1..Len(files) :
               i # k => KeyOf(FrameRowOf(files, i)) # KeyOf(FrameRowOf(files, k)))
        => \A q \in Perms(files) : TableOf(q) = out[m].rows

(* C5: the table each aggregator writes is in ascending order of            *)
(* (condition, alpha, seed): no row sorts strictly before its predecessor.  *)
C5_SortedTable ==
    \A m \in WrittenModels :
        \A j \in 1..(Len(out[m].rows) - 1) :
            ~RowLess(out[m].rows[j + 1], out[m].rows[j])

\* C5, graph-level part: the table of the graph-level aggregator is sorted
\* (missing alpha last)
C5_GraphLevelSorted == script = "macro" => C5_SortedTable

(* C8: when every discovered artifact was skipped, so that no row was       *)
(* collected, the call reports it, writes no file and returns to its        *)
(* caller, which goes on with the next model; for both aggregators.         *)
C8_EmptyAggregationReturns ==
    [][NothingAggregated =>
          /\ pc' \in {"call", "exit"}
          /\ out' = out
          /\ Len(log') = Len(log) + 1]_vars

\* C8, pair-level part: the pair-level aggregator reports, writes nothing
\* and returns
C8_PairLevelReturns ==
    [][(script = "micro" /\ NothingAggregated) =>
          /\ pc' \in {"call", "exit"}
          /\ out' = out
          /\ log' = Append(log, "ERROR no data")]_vars

(* C10: the row normalization (alpha normalization, keep-last               *)
(* deduplication on MetadataKey, sort, index reset) applied to a table it    *)
(* produced gives the same table, same rows in the same order.              *)
C10_NormalizeIdempotent ==
    \A m \in WrittenModels : RowNormalizer(out[m].rows) = out[m].rows

\* a written table of two rows that the normalization had to reorder
C10_Witness ==
    \E m \in WrittenModels :
        /\ Len(out[m].rows) >= 2
        /\ out[m].rows # ToFrame(RowsOf(tree[m]))

-----------------------------------------------------------------------------
(* Properties of the statistics of one document (SpecStats) *)

\* the measurements of the document with a finite mse; those with a finite mse >= 0
FiniteMse == {i \in 1..Len(data.items) : IsNum(data.items[i].mse)}
NonNegMse == {i \in FiniteMse : data.items[i].mse.n >= 0}

\* every measurement carries the same positive test_samples
EqualPositiveSamples ==
    /\ Len(data.items) >= 1
    /\ \E w \in SampleValues :
          /\ IsNum(w) /\ w.n > 0
          /\ \A i \in 1..Len(data.items) : data.items[i].test_samples = w

(* C7 as claimed: for an artifact whose measurements all carry the same     *)
(* positive test_samples, the pair-level overall_mse equals the graph-level *)
(* mse_mean.                                                                *)
C7_WeightedEqualsUnweighted ==
    (grow.kind = "row" /\ prow.kind = "row" /\ EqualPositiveSamples)
    => prow.row[1].overall_mse = grow.row[1].mse_mean

(* C7 as amended: the same, for an artifact none of whose measurements      *)
(* carries a not-a-number mse (each mse is finite or absent).               *)
C7_WeightedEqualsUnweightedFinite ==
    (/\ grow.kind = "row" /\ prow.kind = "row" /\ EqualPositiveSamples
     /\ \A i \in 1..Len(data.items) : data.items[i].mse # NaN)
    => prow.row[1].overall_mse = grow.row[1].mse_mean

\* both rows made from a document with equal positive weights and two
\* different finite mse values
C7_Witness ==
    /\ grow.kind = "row" /\ prow.kind = "row" /\ EqualPositiveSamples
    /\ \A i \in 1..Len(data.items) : data.items[i].mse # NaN
    /\ \E i, j \in FiniteMse : data.items[i].mse # data.items[j].mse
    /\ IsNum(prow.row[1].overall_mse)

(* C9: in a graph-level row mse_std is not-a-number exactly when fewer than *)
(* 2 measurements have a finite mse and mse_mean exactly when none has; the *)
(* same for rmse_std / rmse_mean over the measurements with finite mse >= 0.*)
C9_NaNExactlyWhenTooFew ==
    grow.kind = "row" =>
        LET r == grow.row[1] IN
        /\ (r.mse_std = NaN) <=> (Cardinality(FiniteMse) < 2)
        /\ (r.mse_mean = NaN) <=> (Cardinality(FiniteMse) = 0)
        /\ (r.rmse_std = NaN) <=> (Cardinality(NonNegMse) < 2)
        /\ (r.rmse_mean = NaN) <=> (Cardinality(NonNegMse) = 0)

\* a row over two finite mse values of which one is negative: mse_std is
\* defined, rmse_std is not, rmse_mean is
C9_Witness ==
    /\ grow.kind = "row"
    /\ Cardinality(FiniteMse) = 2
    /\ Cardinality(NonNegMse) = 1
    /\ grow.row[1].mse_std # NaN
    /\ grow.row[1].rmse_std = NaN
    /\ grow.row[1].rmse_mean # NaN

-----------------------------------------------------------------------------
(* Properties of the alpha broadcast (SpecPlot) *)

DepRows == {i \in 1..Len(combined) : combined[i].condition \in AlphaDependent}
IndepRows == {i \in 1..Len(combined) : combined[i].condition \in AlphaIndependent}
\* the distinct non-missing alpha values of the alpha-dependent rows
DepAlphas == {combined[i].alpha : i \in {j \in DepRows : ~IsMissing(combined[j].alpha)}}

\* how often row r occurs in a table
CountEq(df, r) == Cardinality({i \in 1..Len(df) : df[i] = r})

\* how many copies of alpha-independent rows, with alpha overwritten by a
\* value of DepAlphas, equal r
GeneratedCount(r) ==
    IF r.alpha \in DepAlphas
    THEN Cardinality({i \in IndepRows : [combined[i] EXCEPT !.alpha = r.alpha] = r})
    ELSE 0

BroadcastExact(final) ==
    /\ Len(final) = Cardinality(DepRows) + Cardinality(IndepRows) * Cardinality(DepAlphas)
    /\ \A r \in {final[i] : i \in 1..Len(final)} \cup {combined[i] : i \in DepRows} :
          CountEq(final, r)
              = Cardinality({i \in DepRows : combined[i] = r}) + GeneratedCount(r)

(* C6: with k alpha-independent rows and m >= 1 distinct non-missing alpha  *)
(* values among the alpha-dependent rows, the broadcast table holds every   *)
(* alpha-dependent row unchanged, one copy of every alpha-independent row   *)
(* per alpha value differing from it only in alpha (k*m rows), and nothing  *)
(* else; for _prepare_alpha_broadcast and for plot_all_summaries.           *)
C6_BroadcastRowCount ==
    (script = "plot" /\ DepAlphas # {}) =>
        /\ final_df.plt.done => BroadcastExact(final_df.plt.rows)
        /\ final_df.sns.done => BroadcastExact(final_df.sns.rows)

\* both broadcasts done on a table with an alpha-independent row and two
\* alpha values among the alpha-dependent rows
C6_Witness ==
    /\ script = "plot"
    /\ final_df.plt.done /\ final_df.sns.done
    /\ Cardinality(IndepRows) >= 1
    /\ Cardinality(DepAlphas) >= 2
    /\ Len(final_df.plt.rows) = Cardinality(DepRows) + 2 * Cardinality(IndepRows)

-----------------------------------------------------------------------------
(* Properties of the order of missing alpha (Spec) *)

\* in table df, row i has a missing alpha, row j a real alpha, both one condition
MissingAndReal(df, i, j) ==
    /\ df[i].condition = df[j].condition
    /\ IsMissing(df[i].alpha)
    /\ IsNum(df[j].alpha)

(* C11 as claimed: in the sorted (graph-level) summary table, within the    *)
(* rows of one condition a row with missing alpha is ordered as a value     *)
(* lower than or equal to every real alpha: it never appears after a row of *)
(* the same condition that has a real alpha.                                *)
C11_MissingAlphaFirst ==
    script = "macro" =>
        \A m \in WrittenModels :
            \A i, j \in 1..Len(out[m].rows) :
                MissingAndReal(out[m].rows, i, j) => i < j

(* C11 as amended: in the sorted graph-level summary table, within the rows *)
(* of one condition a row with missing alpha is ordered after every real    *)
(* alpha: it never appears before a row of the same condition that has a    *)
(* real alpha.                                                              *)
C11_MissingAlphaLast ==
    script = "macro" =>
        \A m \in WrittenModels :
            \A i, j \in 1..Len(out[m].rows) :
                MissingAndReal(out[m].rows, i, j) => j < i

\* a graph-level table with a missing-alpha row and a real-alpha row of one
\* condition, whose artifacts were enumerated missing alpha first
C11_Witness ==
    /\ script = "macro"
    /\ \E m \in WrittenModels :
          /\ \E i, j \in 1..Len(out[m].rows) : MissingAndReal(out[m].rows, i, j)
          /\ Len(tree[m]) = 2
          /\ IsMissing(Get(tree[m][1].metadata, "alpha"))
          /\ IsNum(Get(tree[m][2].metadata, "alpha"))

-----------------------------------------------------------------------------
(* Properties of the broadcast alpha set (SpecPlot) *)

\* the distinct non-missing alpha values anywhere in the combined table
AllAlphas == {combined[i].alpha : i \in {j \in 1..Len(combined) : ~IsMissing(combined[j].alpha)}}

\* the alpha set the broadcast is to use: the alpha-dependent rows' values,
\* else every value of the table, else the sentinel 0
ExpectedAlphaSet ==
    IF DepAlphas # {} THEN DepAlphas
    ELSE IF AllAlphas # {} THEN AllAlphas
    ELSE {Num(0)}

\* the alpha axis is that set, and with no alpha anywhere every row of the
\* resulting table is a row of the combined table with alpha = 0
AlphaSetAsSpecified(axis, final) ==
    /\ {axis[i] : i \in 1..Len(axis)} = ExpectedAlphaSet
    /\ AllAlphas = {} => final = Assign(combined, Num(0))

(* C12: for a non-empty combined table, the broadcast alpha set is the set  *)
(* of distinct non-missing alpha values of the alpha-dependent rows; if     *)
(* that is empty, every non-missing alpha value of the table; if there is   *)
(* none, the single sentinel 0, and then every row of the resulting table   *)
(* has alpha = 0; for _prepare_alpha_broadcast and for plot_all_summaries.  *)
C12_BroadcastAlphaSet ==
    (script = "plot" /\ Len(combined) >= 1) =>
        /\ final_df.plt.done => AlphaSetAsSpecified(alphas.plt, final_df.plt.rows)
        /\ final_df.sns.done => AlphaSetAsSpecified(alphas.sns, final_df.sns.rows)

\* C12, the part of _prepare_alpha_broadcast: it has the fallback and the sentinel
C12_PltAlphaSet ==
    (script = "plot" /\ final_df.plt.done) =>
        AlphaSetAsSpecified(alphas.plt, final_df.plt.rows)

-----------------------------------------------------------------------------
(* Properties of row emission per artifact (SpecStats) *)

\* the artifact has non-empty metadata and a list-shaped results field
ValidArtifact == data.parse /\ data.metadata # EmptyMeta /\ IsList(data)

\* the graph-level body ran and emitted exactly one row, or none
GraphEmitsOne == grow.kind = "row" /\ Len(grow.row) = 1
GraphEmitsNone == grow.kind # "row" /\ Len(grow.row) = 0
PairEmitsOne == prow.kind = "row" /\ Len(prow.row) = 1
PairEmitsNone == prow.kind # "row" /\ Len(prow.row) = 0

\* the four statistics of a graph-level row are all not-a-number
AllStatsNaN(row) ==
    /\ row.mse_mean = NaN /\ row.mse_std = NaN
    /\ row.rmse_mean = NaN /\ row.rmse_std = NaN

\* no measurement of the artifact enters the weighted sum: the weight is zero
ZeroWeight == \A i \in 1..Len(data.items) : ~Counted(data.items[i])

(* C13: the graph-level aggregator emits exactly one row for an artifact    *)
(* with non-empty metadata and a list-shaped results field, and none for    *)
(* any other; with no finite mse (an empty list included) the row has all   *)
(* four statistics not-a-number and n_targets_used = 0.  The pair-level     *)
(* aggregator emits exactly one row for an artifact with non-empty metadata *)
(* and a non-empty measurement list, and none for any other; the row's      *)
(* overall_mse is not-a-number when the accumulated weight is zero.         *)
C13_RowEmission ==
    script = "stats" =>
        /\ grow # NotRun =>
              /\ IF ValidArtifact THEN GraphEmitsOne ELSE GraphEmitsNone
              /\ (ValidArtifact /\ FiniteMse = {}) =>
                    /\ AllStatsNaN(grow.row[1])
                    /\ grow.row[1].n_targets_used = Num(0)
        /\ prow # NotRun =>
              /\ IF ValidArtifact /\ Len(data.items) > 0
                 THEN PairEmitsOne ELSE PairEmitsNone
              /\ (PairEmitsOne /\ ZeroWeight) => prow.row[1].overall_mse = NaN

\* both bodies ran on an artifact with metadata and an empty results list:
\* the graph-level one emitted the all-NaN row, the pair-level one emitted none
C13_Witness ==
    /\ script = "stats" /\ grow # NotRun /\ prow # NotRun
    /\ ValidArtifact /\ Len(data.items) = 0
    /\ GraphEmitsOne /\ grow.row[1].n_targets_used = Num(0)
    /\ PairEmitsNone

\* both bodies ran on an artifact whose measurements carry no weight and no
\* finite mse: each emitted its one row, with not-a-number statistics
C13_WitnessZeroWeight ==
    /\ script = "stats" /\ grow # NotRun /\ prow # NotRun
    /\ ValidArtifact /\ Len(data.items) > 0 /\ ZeroWeight /\ FiniteMse = {}
    /\ GraphEmitsOne /\ PairEmitsOne
    /\ prow.row[1].overall_mse = NaN

=============================================================================
